---- MODULE Spec2Model ----
(***************************************************************************)
(* A model of linked-markov (src/src/step.rs): Step nodes holding a state  *)
(* and an RwLock-protected HashMap of weighted transitions keyed by step   *)
(* (equality and hashing by state), Step::next's weighted selection, and   *)
(* the two traversals walk and mut_walk.  The caller builds the graph with *)
(* insert_transition and then runs one walk; the callback of mut_walk may  *)
(* change the graph while the walk runs.                                   *)
(***************************************************************************)
EXTENDS Integers, Sequences, FiniteSets, TLC

\* ---- bounds of the model ------------------------------------------------
NumNodes == 2      \* Step instances created by the caller
MaxSteps == 3      \* the steps argument of walk / mut_walk is 0..MaxSteps
MaxInserts == 2    \* insert_transition calls made before the walk
MaxObserved == 3   \* insert_transition calls of the insert-only specification
MaxCalls == 2      \* insert_transition calls made by the other threads
MaxEdges == 1      \* insert_transition calls made before a fair walk

Nodes == 1..NumNodes
T == Nodes         \* the state values: opaque, only compared for equality
Weights == {0, 1, 2}  \* the weights the caller passes to insert_transition
None == 0          \* Option::None for Option<ToStep<T>>

VARIABLES
    state,        \* Step.state of every node (immutable)
    transitions,  \* Step.transitions: node -> [key node -> weight]
    readers,      \* RwLock: number of read guards alive on a node's table
    pc,           \* position of the walking thread
    kind,         \* "walk" or "mut_walk"
    apply,        \* the callback given to mut_walk
    steps,        \* the steps argument
    i,            \* the loop variable of `for _ in 1..steps`
    current,      \* local `current`
    path,         \* local `path`
    next,         \* local `next` (the step handed to the callback)
    total,        \* local `total` of Step::next
    ret,          \* the value returned by walk / mut_walk
    calls,        \* observation: the (current, next) pairs given to the callback
    visited,      \* observation: the start node and every selected node
    selections,   \* observation: number of Step::next calls of the walk
    deadEnd,      \* observation: the last Step::next returned None
    weight0,      \* observation: total weight of the graph when the walk began
    inserts,      \* number of insert_transition calls made by the caller
    last,         \* observation: the latest observed insert_transition call
    graph0,       \* observation: every table when the walk began
    snap,         \* observation: the table Step::next found under its guard
    writer,       \* RwLock: the thread holding the write guard of a node's table
    wcall,        \* the insert_transition call each other thread is making
    lastAcq,      \* observation: the thread that took a table's write guard last
    clone         \* the Step made by Step::clone, if any

vars == <<state, transitions, readers, pc, kind, apply, steps, i, current, path,
          next, total, ret, calls, visited, selections, deadEnd, weight0,
          inserts, last, graph0, snap, writer, wcall, lastAcq, clone>>

threads == <<writer, wcall, lastAcq>>
walkLocals == <<kind, apply, steps, i, current, path, next, total>>
walkObs == <<calls, visited, selections, deadEnd, weight0, graph0, snap>>

\* ---- the transition table (HashMap<ToStep<T>, usize>) -------------------
EmptyTable == [k \in {} |-> 0]

\* Step::new
New(s) == [state |-> s, transitions |-> EmptyTable]

StepEqByInstance(a, b) == a = b

\* PartialEq for Step: equality by state only
StepEq(a, b) == state[a] = state[b]

\* the stored key equal to to_step, if any (HashMap lookup through Hash + Eq)
FindKey(tbl, to_step) == {k \in DOMAIN tbl : StepEq(k, to_step)}

\* HashMap::insert as used by insert_transition: an equal key keeps the stored
\* key and replaces the value; otherwise the pair is added
InsertAccumulates(tbl, to_step, weight) ==
    IF FindKey(tbl, to_step) # {}
    THEN [k \in DOMAIN tbl |-> IF StepEq(k, to_step) THEN tbl[k] + weight ELSE tbl[k]]
    ELSE [k \in DOMAIN tbl \cup {to_step} |-> IF k = to_step THEN weight ELSE tbl[k]]

InsertKeepsFirst(tbl, to_step, weight) ==
    IF FindKey(tbl, to_step) # {}
    THEN tbl
    ELSE [k \in DOMAIN tbl \cup {to_step} |-> IF k = to_step THEN weight ELSE tbl[k]]

InsertReplacesKey(tbl, to_step, weight) ==
    [k \in (DOMAIN tbl \ FindKey(tbl, to_step)) \cup {to_step} |->
        IF k = to_step THEN weight ELSE tbl[k]]

Insert(tbl, to_step, weight) ==
    IF FindKey(tbl, to_step) # {}
    THEN [k \in DOMAIN tbl |-> IF StepEq(k, to_step) THEN weight ELSE tbl[k]]
    ELSE [k \in DOMAIN tbl \cup {to_step} |-> IF k = to_step THEN weight ELSE tbl[k]]

\* entry(next).and_modify(|e| *e += 1).or_insert(1), the callback of the tests
Reinforce(tbl, to_step) ==
    IF FindKey(tbl, to_step) # {}
    THEN [k \in DOMAIN tbl |-> IF StepEq(k, to_step) THEN tbl[k] + 1 ELSE tbl[k]]
    ELSE [k \in DOMAIN tbl \cup {to_step} |-> IF k = to_step THEN 1 ELSE tbl[k]]

RECURSIVE SumOver(_, _)
SumOver(tbl, keys) ==
    IF keys = {} THEN 0
    ELSE LET k == CHOOSE x \in keys : TRUE
         IN tbl[k] + SumOver(tbl, keys \ {k})

\* transitions.values().sum()
Total(tbl) == SumOver(tbl, DOMAIN tbl)

\* the orders in which HashMap::iter may yield the entries
Orders(tbl) ==
    {o \in [1..Cardinality(DOMAIN tbl) -> DOMAIN tbl] :
        \A a, b \in DOMAIN o : a # b => o[a] # o[b]}

AcceptsAtEqual(roll, cumulative) == roll <= cumulative

\* whether the closure of find_map accepts an entry
Accepts(roll, cumulative) == roll < cumulative

RECURSIVE ScanNoSum(_, _, _, _, _)
ScanNoSum(tbl, order, roll, idx, cumulative) ==
    IF idx > Len(order) THEN None
    ELSE LET c == tbl[order[idx]]
         IN IF Accepts(roll, c) THEN order[idx]
            ELSE ScanNoSum(tbl, order, roll, idx + 1, c)

\* transitions.iter().find_map(..) with the running `cumulative`
RECURSIVE Scan(_, _, _, _, _)
Scan(tbl, order, roll, idx, cumulative) ==
    IF idx > Len(order) THEN None
    ELSE LET c == cumulative + tbl[order[idx]]
         IN IF Accepts(roll, c) THEN order[idx]
            ELSE Scan(tbl, order, roll, idx + 1, c)

FindMap(tbl, order, roll) == Scan(tbl, order, roll, 1, 0)

RollsInclusive(tot) == 0..tot

\* rng.random_range(0..total)
Rolls(tot) == 0..(tot - 1)

IsDeadEndEmptyOnly(tbl) == DOMAIN tbl = {}

\* Step::next returns None before rolling
IsDeadEnd(tbl) == DOMAIN tbl = {} \/ Total(tbl) = 0

\* every value Step::next can return on a table
NextResults(tbl) ==
    IF IsDeadEnd(tbl) THEN {None}
    ELSE {FindMap(tbl, o, r) : o \in Orders(tbl), r \in Rolls(Total(tbl))}

GraphWeight == SumOver([n \in Nodes |-> Total(transitions[n])], Nodes)

\* ---- initial state: the caller has created the nodes ---------------------
NoRet == [tag |-> "none"]
NoLast == [node |-> None]
NoClone == [src |-> None]
Threads == {1, 2}        \* the other threads calling insert_transition
NoCall == [pc |-> "idle"]

\* T is only compared for equality (Eq + Hash), so one assignment of states
\* stands for every assignment with the same pattern of equal states
StateAssignments ==
    {f \in [Nodes -> T] :
        \A n \in Nodes : f[n] = 1 \/ \E m \in 1..(n - 1) : f[m] = f[n] - 1}

Init ==
    /\ state \in StateAssignments
    /\ transitions = [n \in Nodes |-> New(state[n]).transitions]
    /\ readers = [n \in Nodes |-> 0]
    /\ pc = "idle"
    /\ kind = "none"
    /\ apply = "none"
    /\ steps = 0
    /\ i = 0
    /\ current = None
    /\ path = <<>>
    /\ next = None
    /\ total = 0
    /\ ret = NoRet
    /\ calls = <<>>
    /\ visited = <<>>
    /\ selections = 0
    /\ deadEnd = FALSE
    /\ weight0 = 0
    /\ inserts = 0
    /\ last = NoLast
    /\ graph0 = transitions
    /\ snap = EmptyTable
    /\ writer = [n \in Nodes |-> None]
    /\ wcall = [t \in Threads |-> NoCall]
    /\ lastAcq = [n \in Nodes |-> None]
    /\ clone = NoClone

\* ---- insert_transition, called by any thread ----------------------------
CanWriteIgnoresReaders(n) == writer[n] = None

\* write() waits until no guard is alive on the table
CanWrite(n) == readers[n] = 0 /\ writer[n] = None

\* read() waits while a write guard is alive on the table
CanRead(n) == writer[n] = None

InsertOp(n, to_step, weight) ==
    /\ pc = "idle"
    /\ CanWrite(n)
    /\ transitions' = [transitions EXCEPT ![n] = Insert(@, to_step, weight)]
    /\ inserts' = inserts + 1
    /\ UNCHANGED <<state, readers, pc, walkLocals, ret, walkObs, threads, clone>>

InsertTransition ==
    \E n \in Nodes, to_step \in Nodes, weight \in Weights :
        /\ inserts < MaxInserts
        /\ InsertOp(n, to_step, weight)
        /\ UNCHANGED last

\* the same call, with the call and the table it found recorded in `last`
ObservedInsert ==
    \E n \in Nodes, to_step \in Nodes, weight \in Weights :
        /\ inserts < MaxObserved
        /\ InsertOp(n, to_step, weight)
        /\ last' = [node |-> n, to |-> to_step, weight |-> weight,
                    before |-> transitions[n]]

\* a graph-building call, recorded in `last`, before a walk
ObservedBuild ==
    \E n \in Nodes, to_step \in Nodes, weight \in Weights :
        /\ inserts < MaxInserts
        /\ InsertOp(n, to_step, weight)
        /\ last' = [node |-> n, to |-> to_step, weight |-> weight,
                    before |-> transitions[n]]

\* ---- Clone for Step -------------------------------------------------------
CloneStepShares(a) ==
    [src |-> a, state |-> state[a], own |-> FALSE,
     transitions |-> transitions[a], at |-> transitions[a]]

\* Step::clone: the state, and a new RwLock around a clone of the HashMap
\* (`at` observes the table that was cloned)
CloneStep(a) ==
    [src |-> a, state |-> state[a], own |-> TRUE,
     transitions |-> transitions[a], at |-> transitions[a]]

\* the table behind the clone's RwLock
CloneTable == IF clone.own THEN clone.transitions ELSE transitions[clone.src]

Clone ==
    \E a \in Nodes :
        /\ pc = "idle"
        /\ clone = NoClone
        /\ CanRead(a)
        /\ clone' = CloneStep(a)
        /\ UNCHANGED <<state, transitions, readers, pc, walkLocals, ret, walkObs,
                       inserts, last, threads>>

\* insert_transition called on the clone
InsertOnClone ==
    \E to_step \in Nodes, weight \in Weights :
        /\ pc = "idle"
        /\ clone # NoClone
        /\ inserts < MaxInserts
        /\ IF clone.own
           THEN /\ clone' = [clone EXCEPT !.transitions = Insert(@, to_step, weight)]
                /\ UNCHANGED transitions
           ELSE /\ transitions' = [transitions EXCEPT
                                     ![clone.src] = Insert(@, to_step, weight)]
                /\ UNCHANGED clone
        /\ inserts' = inserts + 1
        /\ UNCHANGED <<state, readers, pc, walkLocals, ret, walkObs, last, threads>>

\* ---- insert_transition called by other threads on one shared node --------
\* the node whose table the threads share
Shared == CHOOSE n \in Nodes : TRUE

\* a thread calls Shared.insert_transition(to_step, weight)
ThreadCall(t) ==
    /\ wcall[t].pc \in {"idle", "done"}
    /\ inserts < MaxCalls
    /\ \E to_step \in Nodes, weight \in Weights :
        wcall' = [wcall EXCEPT ![t] = [pc |-> "waiting", node |-> Shared,
                                       to |-> to_step, weight |-> weight]]
    /\ inserts' = inserts + 1
    /\ UNCHANGED <<state, transitions, readers, pc, walkLocals, ret, walkObs,
                   last, writer, lastAcq, clone>>

\* self.transitions.write() returns the write guard
ThreadLock(t) ==
    /\ wcall[t].pc = "waiting"
    /\ CanWrite(wcall[t].node)
    /\ writer' = [writer EXCEPT ![wcall[t].node] = t]
    /\ lastAcq' = [lastAcq EXCEPT ![wcall[t].node] = t]
    /\ wcall' = [wcall EXCEPT ![t].pc = "locked"]
    /\ UNCHANGED <<state, transitions, readers, pc, walkLocals, ret, walkObs,
                   last, inserts, clone>>

\* .insert(to_step, weight), and the guard is dropped
ThreadInsert(t) ==
    /\ wcall[t].pc = "locked"
    /\ transitions' = [transitions EXCEPT
                          ![wcall[t].node] = Insert(@, wcall[t].to, wcall[t].weight)]
    /\ writer' = [writer EXCEPT ![wcall[t].node] = None]
    /\ wcall' = [wcall EXCEPT ![t].pc = "done"]
    /\ UNCHANGED <<state, readers, pc, walkLocals, ret, walkObs, last, inserts,
                   lastAcq, clone>>

\* ---- walk and mut_walk ---------------------------------------------------
Callbacks == {"noop", "reinforce"}

InitialPathEmpty(start) == <<>>

\* vec![current.state]
InitialPath(start) == <<state[start]>>

InRangeInclusive(idx, n) == idx <= n

\* `for _ in 1..steps` has an iteration left
InRange(idx, n) == idx < n

WalkExtendPushesCurrent(p, cur, nxt) == Append(p, state[cur])

\* walk: path.push(next.state)
WalkExtend(p, cur, nxt) == Append(p, state[nxt])

MutWalkExtendSkips(p, cur, nxt) == p

\* mut_walk: path.push(current.state)
MutWalkExtend(p, cur, nxt) == Append(p, state[cur])

Begin(start, n, k, f) ==
    /\ pc = "idle"
    /\ kind' = k
    /\ apply' = f
    /\ steps' = n
    /\ current' = start
    /\ path' = InitialPath(start)
    /\ i' = 1
    /\ pc' = "loop"
    /\ visited' = <<start>>
    /\ weight0' = GraphWeight
    /\ graph0' = transitions
    /\ UNCHANGED <<state, transitions, readers, next, total, ret, calls,
                   selections, deadEnd, inserts, last, snap, threads, clone>>

Walk == \E start \in Nodes, n \in 0..MaxSteps : Begin(start, n, "walk", "none")

\* a walk over the shared node, while the other threads insert
WalkShared == \E n \in 0..MaxSteps : Begin(Shared, n, "walk", "none")

MutWalk ==
    \E start \in Nodes, n \in 0..MaxSteps, f \in Callbacks :
        Begin(start, n, "mut_walk", f)

\* the range 1..steps is exhausted: return the path
Return(value) ==
    /\ pc' = "done"
    /\ ret' = value
    /\ current' = None
    /\ path' = <<>>
    /\ next' = None
    /\ total' = 0

Ok(p) == [tag |-> "Ok", path |-> p]
Err == [tag |-> "Err"]

\* walk returns the Vec itself, mut_walk wraps it in Ok
Wrap(k, p) == Ok(p)

LoopExit ==
    /\ pc = "loop"
    /\ ~InRange(i, steps)
    /\ Return(Wrap(kind, path))
    /\ UNCHANGED <<state, transitions, readers, kind, apply, steps, i, calls,
                   visited, selections, deadEnd, weight0, inserts, last>>
    /\ UNCHANGED <<graph0, snap, threads, clone>>

\* current.next(): take the read guard, test is_empty and total
NextTotal ==
    /\ pc = "loop"
    /\ InRange(i, steps)
    /\ CanRead(current)
    /\ selections' = selections + 1
    /\ snap' = transitions[current]
    /\ IF IsDeadEnd(transitions[current])
       THEN /\ deadEnd' = TRUE
            /\ Return(Wrap(kind, path))
            /\ UNCHANGED readers
       ELSE /\ total' = Total(transitions[current])
            /\ readers' = [readers EXCEPT ![current] = @ + 1]
            /\ pc' = "scan"
            /\ UNCHANGED <<deadEnd, ret, current, path, next>>
    /\ UNCHANGED <<state, transitions, kind, apply, steps, i, calls, visited,
                   weight0, inserts, last, graph0, threads, clone>>

ReleaseLeaks(n) == readers

\* the guard of Step::next is dropped when next returns
Release(n) == [readers EXCEPT ![n] = @ - 1]

NextScanConsumes ==
    /\ pc = "scan"
    /\ \E roll \in Rolls(total), order \in Orders(transitions[current]) :
        LET nxt == FindMap(transitions[current], order, roll) IN
        /\ readers' = Release(current)
        /\ transitions' = IF nxt = None THEN transitions
                          ELSE [transitions EXCEPT ![current][nxt] = @ - 1]
        /\ IF nxt = None
           THEN /\ deadEnd' = TRUE
                /\ Return(Wrap(kind, path))
                /\ UNCHANGED <<i, visited>>
           ELSE /\ visited' = Append(visited, nxt)
                /\ UNCHANGED <<deadEnd, ret>>
                /\ total' = 0
                /\ IF kind = "walk"
                   THEN /\ path' = WalkExtend(path, current, nxt)
                        /\ current' = nxt
                        /\ i' = i + 1
                        /\ pc' = "loop"
                        /\ UNCHANGED next
                   ELSE /\ next' = nxt
                        /\ pc' = "apply"
                        /\ UNCHANGED <<i, current, path>>
    /\ UNCHANGED <<state, kind, apply, steps, calls, selections,
                   weight0, inserts, last, graph0, snap, threads, clone>>

\* current.next(): roll, scan, drop the guard; walk then pushes and advances
NextScan ==
    /\ pc = "scan"
    /\ \E roll \in Rolls(total), order \in Orders(transitions[current]) :
        LET nxt == FindMap(transitions[current], order, roll) IN
        /\ readers' = Release(current)
        /\ IF nxt = None
           THEN /\ deadEnd' = TRUE
                /\ Return(Wrap(kind, path))
                /\ UNCHANGED <<i, visited>>
           ELSE /\ visited' = Append(visited, nxt)
                /\ UNCHANGED <<deadEnd, ret>>
                /\ total' = 0
                /\ IF kind = "walk"
                   THEN /\ path' = WalkExtend(path, current, nxt)
                        /\ current' = nxt
                        /\ i' = i + 1
                        /\ pc' = "loop"
                        /\ UNCHANGED next
                   ELSE /\ next' = nxt
                        /\ pc' = "apply"
                        /\ UNCHANGED <<i, current, path>>
    /\ UNCHANGED <<state, transitions, kind, apply, steps, calls, selections,
                   weight0, inserts, last, graph0, snap, threads, clone>>

\* apply(current.clone(), next.clone()) returned Ok(())
ApplyOk ==
    /\ pc = "apply"
    /\ calls' = Append(calls, <<current, next>>)
    /\ IF apply = "reinforce"
       THEN /\ CanWrite(current)
            /\ transitions' = [transitions EXCEPT ![current] = Reinforce(@, next)]
       ELSE UNCHANGED transitions
    /\ path' = MutWalkExtend(path, current, next)
    /\ current' = next
    /\ next' = None
    /\ i' = i + 1
    /\ pc' = "loop"
    /\ UNCHANGED <<state, readers, kind, apply, steps, total, ret, visited,
                   selections, deadEnd, weight0, inserts, last>>
    /\ UNCHANGED <<graph0, snap, threads, clone>>

ApplyErrSwallowed ==
    /\ pc = "apply"
    /\ calls' = Append(calls, <<current, next>>)
    /\ ret' = Err
    /\ path' = MutWalkExtend(path, current, next)
    /\ current' = next
    /\ next' = None
    /\ i' = i + 1
    /\ pc' = "loop"
    /\ UNCHANGED <<state, transitions, readers, kind, apply, steps, total, visited,
                   selections, deadEnd, weight0, inserts, last>>
    /\ UNCHANGED <<graph0, snap, threads, clone>>

\* apply(..) returned Err: the ? operator returns it from mut_walk
ApplyErr ==
    /\ pc = "apply"
    /\ calls' = Append(calls, <<current, next>>)
    /\ Return(Err)
    /\ UNCHANGED <<state, transitions, readers, kind, apply, steps, i, visited,
                   selections, deadEnd, weight0, inserts, last>>
    /\ UNCHANGED <<graph0, snap, threads, clone>>

Next ==
    \/ InsertTransition
    \/ Walk
    \/ MutWalk
    \/ LoopExit
    \/ NextTotal
    \/ NextScan
    \/ ApplyOk
    \/ ApplyErr

Spec == Init /\ [][Next]_vars

\* other threads call insert_transition on a node while a walk reads it
NextConc ==
    \/ \E t \in Threads : ThreadCall(t)
    \/ \E t \in Threads : ThreadLock(t)
    \/ \E t \in Threads : ThreadInsert(t)
    \/ WalkShared
    \/ LoopExit
    \/ NextTotal
    \/ NextScan

SpecConc == Init /\ [][NextConc]_vars

\* a started walk keeps running: the calling thread is scheduled, Step::next
\* acquires its read guard, and the callback returns
Running ==
    \/ LoopExit
    \/ NextTotal
    \/ NextScan
    \/ ApplyOk
    \/ ApplyErr

\* insert_transition while the graph of a fair walk is built
InsertEdge ==
    \E n \in Nodes, to_step \in Nodes, weight \in Weights :
        /\ inserts < MaxEdges
        /\ InsertOp(n, to_step, weight)
        /\ UNCHANGED last

NextFair ==
    \/ InsertEdge
    \/ Walk
    \/ MutWalk
    \/ LoopExit
    \/ NextTotal
    \/ NextScan
    \/ ApplyOk
    \/ ApplyErr

SpecFair == Init /\ [][NextFair]_vars /\ WF_vars(Running)

\* the caller builds a graph, every call observed, and then walks it
NextKey ==
    \/ ObservedBuild
    \/ Walk
    \/ LoopExit
    \/ NextTotal
    \/ NextScan

SpecKey == Init /\ [][NextKey]_vars

\* the caller builds tables, clones a node and inserts into both
NextClone ==
    \/ InsertTransition
    \/ Clone
    \/ InsertOnClone

SpecClone == Init /\ [][NextClone]_vars

\* the caller only builds tables: every insert_transition call is observed
SpecInsert == Init /\ [][ObservedInsert]_vars

TypeOK ==
    /\ state \in [Nodes -> T]
    /\ \A n \in Nodes : DOMAIN transitions[n] \subseteq Nodes
    /\ pc \in {"idle", "loop", "scan", "apply", "done"}

\* ---- properties ---------------------------------------------------------
HasPositive(tbl) == \E k \in DOMAIN tbl : tbl[k] > 0
AllZero(tbl) == \A k \in DOMAIN tbl : tbl[k] = 0
ReturnedOk == pc = "done" /\ ret.tag = "Ok"
Taken == Len(visited) - 1

\* C1: for steps >= 1, walk and mut_walk (callback never failing) return a
\* path of exactly `steps` entries, unless a selection found no successor, in
\* which case the path has (transitions taken before the dead end) + 1 entries.
C1_PathLength ==
    (ReturnedOk /\ steps >= 1) =>
        Len(ret.path) = IF deadEnd THEN Taken + 1 ELSE steps

C1_Witness ==
    /\ ReturnedOk
    /\ kind = "mut_walk"
    /\ steps = 3
    /\ deadEnd
    /\ Taken = 1
    /\ Len(ret.path) = 2

\* C2: in mut_walk with a never-failing callback, the j-th callback call got
\* (current, next) with current.state the j-th and next.state the (j+1)-th
\* entry of the returned path, for every j from 1 to len(path) - 1.
C2_CallbackSeesPathPairs ==
    (ReturnedOk /\ kind = "mut_walk") =>
        \A j \in 1..(Len(ret.path) - 1) :
            /\ j \in DOMAIN calls
            /\ state[calls[j][1]] = ret.path[j]
            /\ state[calls[j][2]] = ret.path[j + 1]

\* C3: in mut_walk with a never-failing callback, the callback is called
\* exactly len(path) - 1 times, once per transition taken; the callback that
\* adds 1 to the weight of current -> next leaves the graph's total weight at
\* its initial total plus len(path) - 1.
C3_CallbackCount ==
    (ReturnedOk /\ kind = "mut_walk") =>
        /\ Len(calls) = Len(ret.path) - 1
        /\ Len(calls) = Taken
        /\ apply = "reinforce" => GraphWeight = weight0 + Len(ret.path) - 1

C3_Witness ==
    /\ ReturnedOk
    /\ kind = "mut_walk"
    /\ apply = "reinforce"
    /\ Len(ret.path) = 3
    /\ Len(calls) = 2
    /\ GraphWeight = weight0 + 2

\* C4: when the callback fails on the k-th transition, mut_walk returns that
\* failure and no path, k - 1 callback calls came before the failing one, and
\* no selection or callback call happens afterwards.
C4_FailedState ==
    ret.tag = "Err" =>
        /\ pc = "done"
        /\ DOMAIN ret = {"tag"}
        /\ Len(calls) = Taken
        /\ Len(calls) - 1 = i - 1
        /\ selections = Len(calls)

C4_CallbackFailure ==
    /\ []C4_FailedState
    /\ [][ret.tag = "Err" => UNCHANGED <<ret, calls, selections, pc>>]_vars

C4_Witness ==
    /\ pc = "done"
    /\ ret.tag = "Err"
    /\ Len(calls) = 2
    /\ steps = 3

\* C5: walk(start, 0) returns exactly one entry, the state of start, and
\* performs no selection.
C5_ZeroSteps ==
    (pc = "done" /\ kind = "walk" /\ steps = 0) =>
        /\ ret = Ok(<<state[visited[1]]>>)
        /\ selections = 0

C5_Witness ==
    /\ pc = "done"
    /\ kind = "walk"
    /\ steps = 0
    /\ Len(ret.path) = 1
    /\ HasPositive(transitions[visited[1]])

\* C6: when every node has an outgoing edge of positive weight (the graph is
\* not modified while walk runs), walk returns a path of exactly `steps`
\* entries for every steps >= 1 and every roll.
C6_NoEarlyStop ==
    (pc = "done" /\ kind = "walk" /\ steps >= 1
        /\ \A n \in Nodes : HasPositive(transitions[n])) =>
        (ret.tag = "Ok" /\ Len(ret.path) = steps /\ ~deadEnd)

C6_Witness ==
    /\ pc = "done"
    /\ kind = "walk"
    /\ steps = 3
    /\ \A n \in Nodes : HasPositive(transitions[n])
    /\ Len(ret.path) = 3
    /\ visited[1] # visited[2]

\* the table Step::next is reading, while it holds the read guard
Scanned == transitions[current]

\* C7: Step::next never returns a zero-weight edge, for every table, every
\* iteration order and every roll in [0, total); every successor a walk
\* selected has positive weight in its predecessor's table.
C7_ZeroWeightNeverSelected ==
    /\ pc = "scan" =>
        \A order \in Orders(Scanned), roll \in Rolls(total) :
            LET r == FindMap(Scanned, order, roll) IN
            r # None => (r \in DOMAIN Scanned /\ Scanned[r] > 0)
    /\ apply # "reinforce" =>
        \A j \in 1..(Len(visited) - 1) :
            /\ visited[j + 1] \in DOMAIN transitions[visited[j]]
            /\ transitions[visited[j]][visited[j + 1]] > 0

C7_Witness ==
    /\ pc = "apply"
    /\ \E k \in DOMAIN transitions[current] :
        /\ transitions[current][k] = 0
        /\ Cardinality(DOMAIN transitions[current]) = 2
        /\ next # k

\* C8: Step::next returns None exactly when the table is empty or all its
\* weights are zero; otherwise it returns a key of the table, for every roll
\* and every iteration order.
C8_NoneIffDeadEnd ==
    /\ pc = "scan" =>
        /\ HasPositive(Scanned)
        /\ total > 0
        /\ \A order \in Orders(Scanned), roll \in Rolls(total) :
            FindMap(Scanned, order, roll) \in DOMAIN Scanned
    /\ (pc = "done" /\ deadEnd) => AllZero(transitions[visited[Len(visited)]])
    /\ \A j \in 1..(Len(visited) - 1) : visited[j + 1] \in DOMAIN transitions[visited[j]]

C8_Witness ==
    /\ pc = "done"
    /\ deadEnd
    /\ Taken = 1
    /\ DOMAIN transitions[visited[2]] # {}
    /\ AllZero(transitions[visited[2]])

\* C9: for every table of positive total and every iteration order, the
\* number of rolls in [0, total) for which Step::next returns an edge equals
\* that edge's weight.
C9_Proportional ==
    pc = "scan" =>
        \A order \in Orders(Scanned), k \in DOMAIN Scanned :
            Cardinality({r \in Rolls(total) : FindMap(Scanned, order, r) = k})
                = Scanned[k]

C9_Witness ==
    /\ pc = "apply"
    /\ \E a, b \in DOMAIN transitions[current] :
        /\ transitions[current][a] = 1
        /\ transitions[current][b] = 2
        /\ next = b

\* C10: a second insert_transition on the same node with the same target
\* node and a different weight leaves one edge for that target, holding the
\* latest weight, and leaves every other edge of the table unchanged.
C10_InsertOverwrites ==
    (last.node # None /\ last.to \in DOMAIN last.before
        /\ last.before[last.to] # last.weight) =>
        LET tbl == transitions[last.node] IN
        /\ DOMAIN tbl = DOMAIN last.before
        /\ tbl[last.to] = last.weight
        /\ \A k \in DOMAIN tbl \ {last.to} : tbl[k] = last.before[k]

C10_Witness ==
    /\ last.node # None
    /\ last.to \in DOMAIN last.before
    /\ last.before[last.to] = 2
    /\ last.weight = 1
    /\ Cardinality(DOMAIN transitions[last.node]) = 2

\* C11: walk does not mutate the graph: no step of a walk changes a node's
\* state or table, and when walk has returned every table is what it was
\* when walk was called.
C11_Unchanged == (pc = "done" /\ kind = "walk") => transitions = graph0

C11_WalkLeavesGraph ==
    /\ []C11_Unchanged
    /\ [][(kind = "walk" /\ pc # "idle") => UNCHANGED <<state, transitions>>]_vars

C11_Witness ==
    /\ pc = "done"
    /\ kind = "walk"
    /\ Len(ret.path) = 3
    /\ transitions = graph0
    /\ \A n \in Nodes : HasPositive(transitions[n])

\* C12: mut_walk holds no table lock while the callback runs: the read guard
\* of the selection is dropped before the callback is called, so a callback
\* taking the write lock of the current node's (or any node's) table proceeds.
C12_NoLockDuringCallback ==
    /\ pc = "apply" =>
        /\ \A n \in Nodes : readers[n] = 0 /\ CanWrite(n)
        /\ ENABLED ApplyOk
    /\ \A n \in Nodes : readers[n] > 0 => (pc = "scan" /\ n = current)

C12_Witness ==
    /\ pc = "apply"
    /\ apply = "reinforce"
    /\ Len(calls) = 1
    /\ calls[1][1] = current
    /\ readers[current] = 0

\* C13: while other threads call insert_transition on the node, Step::next
\* computes its total and its scan on one table state: the table does not
\* change under its guard, it returns None only if that table's total was 0,
\* and otherwise a target of positive weight in that table.
C13_NoTornRead ==
    /\ pc = "scan" =>
        /\ transitions[current] = snap
        /\ total = Total(snap)
        /\ total > 0
    /\ deadEnd => IsDeadEnd(snap) /\ AllZero(snap)
    /\ (pc # "scan" /\ ~deadEnd /\ Len(visited) >= 2) =>
        /\ visited[Len(visited)] \in DOMAIN snap
        /\ snap[visited[Len(visited)]] > 0

C13_Witness ==
    /\ pc = "scan"
    /\ current = Shared
    /\ \E t \in Threads :
        /\ wcall[t].pc = "waiting"
        /\ wcall[t].node = current
        /\ ~CanWrite(current)
        /\ Total(Insert(transitions[current], wcall[t].to, wcall[t].weight)) = 0

\* C14: when two threads call insert_transition on the same node with the
\* same target key and different weights, the table ends with one edge for
\* that key, holding the weight of the call that took the lock last.
C14_LastWriterWins ==
    \A t, u \in Threads :
        (t # u /\ wcall[t].pc = "done" /\ wcall[u].pc = "done"
            /\ wcall[t].node = wcall[u].node
            /\ state[wcall[t].to] = state[wcall[u].to]
            /\ wcall[t].weight # wcall[u].weight
            /\ lastAcq[wcall[t].node] = t) =>
            LET tbl == transitions[wcall[t].node]
                keys == {k \in DOMAIN tbl : state[k] = state[wcall[t].to]}
            IN /\ Cardinality(keys) = 1
               /\ \A k \in keys : tbl[k] = wcall[t].weight

C14_Witness ==
    /\ wcall[1].pc = "done"
    /\ wcall[2].pc = "done"
    /\ wcall[1].to = wcall[2].to
    /\ wcall[1].weight = 1
    /\ wcall[2].weight = 2
    /\ lastAcq[Shared] = 1
    /\ transitions[Shared][wcall[1].to] = 1

StatesOf(seq) == [j \in 1..Len(seq) |-> state[seq[j]]]

\* C15: with the same graph, start, steps and rolls, mut_walk with a callback
\* that succeeds and leaves the graph alone returns Ok(path) with the path
\* walk returns: the states of the visited nodes, in order, one per node.
C15_MutWalkPathEqualsWalkPath ==
    (ReturnedOk /\ kind = "mut_walk" /\ apply = "noop") =>
        ret.path = StatesOf(visited)

\* C16: after any sequence of insert_transition calls, with any target
\* instances, a table holds at most one edge per target state.
C16_KeysUniqueByState ==
    \A n \in Nodes :
        \A a, b \in DOMAIN transitions[n] : state[a] = state[b] => a = b

C16_Witness ==
    /\ last.node # None
    /\ last.to \notin DOMAIN last.before
    /\ \E k \in DOMAIN last.before : state[k] = state[last.to]
    /\ Cardinality(DOMAIN transitions[last.node]) = 1

\* C17: the path walk returns starts with the start node's state, and every
\* two consecutive entries are the states of a node and of a target to which
\* that node has an edge of positive weight.
C17_PathValid ==
    (ReturnedOk /\ kind = "walk") =>
        /\ ret.path[1] = state[visited[1]]
        /\ ret.path = StatesOf(visited)
        /\ \A j \in 1..(Len(ret.path) - 1) :
            \E a \in Nodes :
                \E b \in DOMAIN transitions[a] :
                    /\ state[a] = ret.path[j]
                    /\ state[b] = ret.path[j + 1]
                    /\ transitions[a][b] > 0

C17_Witness ==
    /\ ReturnedOk
    /\ kind = "walk"
    /\ Len(ret.path) = 3
    /\ ret.path[1] # ret.path[2]
    /\ ret.path[2] # ret.path[3]

\* C18: a clone has the state, the target nodes and the weights its original
\* had when it was cloned; cloning changes no table and copies no target; and
\* a later insert_transition on the clone leaves the original's table
\* unchanged, and one on the original leaves the clone's table unchanged.
C18_CloneState ==
    clone # NoClone =>
        /\ clone.state = state[clone.src]
        /\ DOMAIN CloneTable \subseteq Nodes

C18_ShallowClone ==
    /\ []C18_CloneState
    /\ [][(clone = NoClone /\ clone' # NoClone) =>
            (CloneTable' = transitions[clone'.src] /\ transitions' = transitions)]_vars
    /\ [][clone # NoClone =>
            /\ transitions' # transitions => CloneTable' = CloneTable
            /\ CloneTable' # CloneTable => transitions' = transitions]_vars

C18_Witness ==
    /\ clone # NoClone
    /\ DOMAIN clone.at # {}
    /\ transitions[clone.src] = clone.at
    /\ CloneTable # clone.at
    /\ DOMAIN CloneTable = DOMAIN clone.at

\* C19: when insert_transition is called with an instance n2 whose state
\* equals that of a stored key n1 (n1 a different node), the stored key
\* remains n1 and its weight is the new one; selection returns stored keys,
\* never n2, and the walk reads the table of the key it was given.
C19_Stored(n1) ==
    /\ last.node # None
    /\ n1 \in DOMAIN last.before
    /\ n1 # last.to
    /\ state[n1] = state[last.to]

C19_StoredKeyRemains ==
    /\ \A n1 \in Nodes :
        C19_Stored(n1) =>
            /\ DOMAIN transitions[last.node] = DOMAIN last.before
            /\ transitions[last.node][n1] = last.weight
            /\ last.to \notin NextResults(transitions[last.node])
            /\ \A j \in 1..(Len(visited) - 1) :
                visited[j] = last.node => visited[j + 1] # last.to
    /\ \A j \in 1..(Len(visited) - 1) :
        visited[j + 1] \in DOMAIN transitions[visited[j]]
    /\ (pc = "scan" /\ visited # <<>>) =>
        (current = visited[Len(visited)] /\ snap = transitions[current])

C19_Witness ==
    /\ ReturnedOk
    /\ kind = "walk"
    /\ Len(visited) = 3
    /\ visited[1] = last.node
    /\ C19_Stored(visited[2])
    /\ transitions[visited[2]] # transitions[last.to]
    /\ visited[3] \notin DOMAIN transitions[last.to]

\* C20: every walk and every mut_walk terminates, whatever the graph and
\* whatever the callback did to it: Step::next is called at most
\* max_steps - 1 times, and the call returns, because the step bound was
\* reached, a dead end was met, or the callback failed.
C20_Bounded == selections <= (IF steps > 0 THEN steps - 1 ELSE 0)

C20_Stopped == pc = "done" => (ret = Err \/ deadEnd \/ i >= steps)

C20_Terminates ==
    /\ []C20_Bounded
    /\ []C20_Stopped
    /\ (pc \in {"loop", "scan", "apply"}) ~> (pc = "done")

C20_Witness ==
    /\ pc = "done"
    /\ kind = "mut_walk"
    /\ apply = "reinforce"
    /\ ret # Err
    /\ ~deadEnd
    /\ steps = MaxSteps
    /\ selections = steps - 1
    /\ \E j, k \in 1..Len(visited) : j < k /\ visited[j] = visited[k]
    /\ transitions # graph0
====
